---------------------------- MODULE Spec2Model ----------------------------
(***************************************************************************)
(* Model of combustion's FCOS decoder (src/src/combustion/nn/modules/      *)
(* fcos.py): FCOSDecoder.postprocess, BaseFCOSDecoder.reduce_heatmaps and  *)
(* BaseFCOSDecoder.forward; of EfficientDetFCOS (models/efficientdet_fcos  *)
(* .py); of TorchScriptCallback (lightning/callbacks.py); and of the       *)
(* attention upsample block (nn/modules/global_attention_upsample.py).     *)
(*                                                                         *)
(* Tensors are functions from index tuples to integers.  A score v stands  *)
(* for the probability v/4, so that the products cls * centerness of the   *)
(* inputs used here are perfect squares and sqrt_() is exact.  The inputs   *)
(* of postprocess are probabilities (from_logits is False, its default).   *)
(***************************************************************************)
EXTENDS Integers, Sequences, FiniteSets, TLC

VARIABLES
    \* ---- FCOSDecoder.postprocess: arguments
    cls,            \* tuple over levels of tensors (b, c, y, x) -> score
    reg,            \* tuple over levels of tensors (b, y, x) -> <<l, t, r, b>>
    centerness,     \* tuple over levels of tensors (b, y, x) -> score
    threshold,      \* as passed by the caller (may be negative)
    nms_threshold,  \* None or a fraction <<num, den>>
    use_raw_score,
    \* ---- FCOSDecoder.postprocess: locals
    pc,             \* position in the method body
    i,              \* index of the next FPN level of the loop (1-based)
    boxes,          \* list of per-level row lists, then the concatenated rows
    batch_idx,      \* list of per-level image indices, then concatenated
    coords,         \* the local `coords`: Unbound until a level has positives
    candidates,     \* per level, the value of `base + offset` before clamp_min_
    result,         \* what the call returned or raised
    \* ---- BaseFCOSDecoder.reduce_heatmaps
    heatmap,        \* argument: tuple of per-level heatmaps (y, x) -> value
    rh_pc,
    rh_i,           \* the loop variable `i`
    rh_acc,         \* the local `result`
    rh_result,      \* what the call returned or raised
    \* ---- BaseFCOSDecoder.forward
    fpn,            \* argument: per level, the spatial shape <<H_i, W_i>>
    fw_cls,         \* the local `cls`
    fw_heads,       \* the local `_`, the output of reg_head
    fw_pc,
    fw_result,      \* what the call returned
    \* ---- EfficientDetFCOS.forward (with MultiLevelHead)
    det_model,      \* the constructed model: its arguments and its head's layers
    det_inputs,     \* argument: the shape of the input batch
    det_pc,
    det_output,     \* the local `output`
    det_result,     \* what the call returned or raised
    \* ---- EfficientDetFCOS.create_boxes
    cbx_args,       \* arguments: the per-level prediction lists, strides
    cbx_pc,
    cbx_i,          \* the loop variable `i`
    cbx_result,     \* what the call returned or raised
    \* ---- EfficientDetFCOS.from_predefined
    default_blocks, \* the class attribute DEFAULT_BLOCKS
    built,          \* the models built so far, in call order
    \* ---- TorchScriptCallback
    self_path,      \* the callback's attributes path, trace, sample_input
    self_trace,
    self_sample_input,
    given,          \* the arguments the callback was constructed with
    calls,          \* the on_train_end calls so far: arguments, effects, outcome
    \* ---- _AttentionUpsample.forward
    gau,            \* the constructed module
    gau_in,         \* arguments: the shapes of low_level and high_level
    gau_pc,
    gau_low,        \* the local `low_level`
    gau_weights,    \* the local `weights`
    gau_high,       \* the local `high_level`
    gau_result      \* what the call returned or raised

ppVars == <<cls, reg, centerness, threshold, nms_threshold, use_raw_score,
            pc, i, boxes, batch_idx, coords, candidates, result>>
rhVars == <<heatmap, rh_pc, rh_i, rh_acc, rh_result>>
fwVars == <<fpn, fw_cls, fw_heads, fw_pc, fw_result>>
detVars == <<det_model, det_inputs, det_pc, det_output, det_result>>
cbxVars == <<cbx_args, cbx_pc, cbx_i, cbx_result>>
preVars == <<default_blocks, built>>
tscVars == <<self_path, self_trace, self_sample_input, given, calls>>
gauVars == <<gau, gau_in, gau_pc, gau_low, gau_weights, gau_high, gau_result>>
vars == <<ppVars, rhVars, fwVars, detVars, cbxVars, preVars, tscVars, gauVars>>

---------------------------------------------------------------------------
(* Bounds of the model and the inputs drawn for a call.                    *)

BatchSize == 2
NumClasses == 2

\* strides of the FPN levels and the spatial shape <<H_i, W_i>> of each level
Strides == <<2, 4>>
Shapes == << <<1, 2>>, <<1, 1>> >>

\* default of the pad_value parameter
PadValue == -1

None == "None"
Unbound == "unbound"

Levels == 1..Len(Strides)
Images == 0..(BatchSize - 1)
Classes == 0..(NumClasses - 1)
Height(lv) == Shapes[lv][1]
Width(lv) == Shapes[lv][2]

\* index sets of a level's classification tensor and of its spatial positions
ClsIndex(lv) == {<<b, c, y, x>> : b \in Images, c \in Classes,
                                  y \in 0..(Height(lv) - 1), x \in 0..(Width(lv) - 1)}
PosIndex(lv) == {<<b, y, x>> : b \in Images,
                               y \in 0..(Height(lv) - 1), x \in 0..(Width(lv) - 1)}
\* every (level, b, c, y, x) of the classification pyramid
Locations == UNION {{<<lv, p>> : p \in ClsIndex(lv)} : lv \in Levels}

\* a call's classification scores (in quarters) are 0 except at up to two
\* locations; the (regression, centerness) pairs of the positions of those two
ScoreVals == {1, 4}
Profiles == { [reg |-> <<1, 1, 1, 1>>, ctr |-> 4],
              [reg |-> <<3, 3, 3, 3>>, ctr |-> 1],
              [reg |-> <<-5, 0, 9, 2>>, ctr |-> 4] }
Background == [reg |-> <<0, 0, 0, 0>>, ctr |-> 1]
Thresholds == {-1, 2}
NmsThresholds == {None, <<1, 2>>}

PosOf(p) == <<p[1], p[3], p[4]>>

---------------------------------------------------------------------------
(* Tensor-framework primitives, as the decoder uses them.                  *)

Abs(v) == IF v < 0 THEN -v ELSE v
Min(a, b) == IF a < b THEN a ELSE b
Max(a, b) == IF a > b THEN a ELSE b

\* Tensor.sqrt_() on the perfect squares the inputs produce
Sqrt(n) == CHOOSE k \in 0..n : k * k <= n /\ n < (k + 1) * (k + 1)

\* row-major rank of an index of a level's classification tensor
RowMajor(lv, p) ==
    ((p[1] * NumClasses + p[2]) * Height(lv) + p[3]) * Width(lv) + p[4]

RECURSIVE InRowMajorOrder(_, _)
InRowMajorOrder(lv, S) ==
    IF S = {} THEN <<>>
    ELSE LET m == CHOOSE p \in S : \A q \in S : RowMajor(lv, p) <= RowMajor(lv, q)
         IN  <<m>> \o InRowMajorOrder(lv, S \ {m})

\* (mask).nonzero(as_tuple=False): the indices where the mask holds, row-major
Nonzero(lv, mask) == InRowMajorOrder(lv, {p \in ClsIndex(lv) : mask[p]})

RECURSIVE Cat(_)
Cat(lists) == IF lists = <<>> THEN <<>> ELSE Head(lists) \o Cat(Tail(lists))

---------------------------------------------------------------------------
(* FCOSDecoder.postprocess                                                 *)

\* (mutant) the threshold used as passed, without abs()
Threshold_Signed == threshold

\* threshold = abs(float(threshold))
Threshold == Abs(threshold)

\* nms_threshold = abs(float(nms_threshold)) if nms_threshold is not None else None
NmsThreshold ==
    IF nms_threshold = None THEN None
    ELSE <<Abs(nms_threshold[1]), nms_threshold[2]>>

\* y_lim, x_lim = [x * strides[0] for x in cls[0].shape[-2:]]
y_lim == Height(1) * Strides[1]
x_lim == Width(1) * Strides[1]

\* batch_size = cls[0].shape[0] ; num_classes = cls[0].shape[1]
batch_size == BatchSize
num_classes == NumClasses

\* positive_locations = (level_cls >= threshold).nonzero(as_tuple=False)
PositiveLocations(lv) ==
    Nonzero(lv, [p \in ClsIndex(lv) |-> cls[lv][p] >= Threshold])

\* raw_score = level_cls[batch, cls, y, x]
RawScore(lv, p) == cls[lv][p]

\* scaled_score = (level_cls * level_centerness.expand_as(level_cls)).sqrt_()[batch, cls, y, x]
ScaledScore(lv, p) == Sqrt(cls[lv][p] * centerness[lv][PosOf(p)])

\* (mutant) the columns of positive_locations taken as (y, x) instead of (x, y)
Base_Transposed(lv, p) ==
    LET stride == Strides[lv]
        bx == p[3] * stride + (stride \div 2)
        by == p[4] * stride + (stride \div 2)
    IN  <<bx, by, bx, by>>

\* base = (positive_locations[..., (-1, -2)] * stride).add_(int(stride / 2)).repeat(1, 2)
Base(lv, p) ==
    LET stride == Strides[lv]
        bx == p[4] * stride + (stride \div 2)
        by == p[3] * stride + (stride \div 2)
    IN  <<bx, by, bx, by>>

\* offset = level_reg[batch, :, y, x].view_as(base) ; offset[..., :2].neg_()
Offset(lv, p) ==
    LET o == reg[lv][PosOf(p)]
    IN  <<-o[1], -o[2], o[3], o[4]>>

\* base + offset
Candidate(lv, p) == [k \in 1..4 |-> Base(lv, p)[k] + Offset(lv, p)[k]]

\* .clamp_min_(0) ; coords[..., 2].clamp_max_(x_lim) ; coords[..., 3].clamp_max_(y_lim)
Clamp(c) ==
    LET m == [k \in 1..4 |-> Max(c[k], 0)]
    IN  <<m[1], m[2], Min(m[3], x_lim), Min(m[4], y_lim)>>

\* torch.cat([coords, raw_score, scaled_score, cls], dim=-1), one row
BoxRow(lv, p) ==
    Clamp(Candidate(lv, p)) \o <<RawScore(lv, p), ScaledScore(lv, p), p[2]>>

PPInit ==
    /\ \E p1 \in Locations, p2 \in Locations, v1 \in ScoreVals, v2 \in ScoreVals,
          f1 \in Profiles, f2 \in Profiles :
          /\ cls = [lv \in Levels |-> [p \in ClsIndex(lv) |->
                      IF <<lv, p>> = p1 THEN v1
                      ELSE IF <<lv, p>> = p2 THEN v2 ELSE 0]]
          /\ reg = [lv \in Levels |-> [q \in PosIndex(lv) |->
                      IF lv = p1[1] /\ q = PosOf(p1[2]) THEN f1.reg
                      ELSE IF lv = p2[1] /\ q = PosOf(p2[2]) THEN f2.reg
                      ELSE Background.reg]]
          /\ centerness = [lv \in Levels |-> [q \in PosIndex(lv) |->
                      IF lv = p1[1] /\ q = PosOf(p1[2]) THEN f1.ctr
                      ELSE IF lv = p2[1] /\ q = PosOf(p2[2]) THEN f2.ctr
                      ELSE Background.ctr]]
    /\ threshold \in Thresholds
    /\ nms_threshold \in NmsThresholds
    /\ use_raw_score \in BOOLEAN
    /\ pc = "loop"
    /\ i = 1
    /\ boxes = <<>>
    /\ batch_idx = <<>>
    /\ coords = Unbound
    /\ candidates = <<>>
    /\ result = [kind |-> "none"]

\* one iteration of `for i, (stride, level_cls, level_reg, level_centerness) in ...`
LevelStep ==
    /\ pc = "loop"
    /\ i <= Len(Strides)
    /\ LET positive_locations == PositiveLocations(i)
           n == Len(positive_locations)
       IN  IF n = 0
           THEN UNCHANGED <<boxes, batch_idx, coords, candidates>>
           ELSE /\ boxes' = Append(boxes,
                        [k \in 1..n |-> BoxRow(i, positive_locations[k])])
                /\ batch_idx' = Append(batch_idx,
                        [k \in 1..n |-> positive_locations[k][1]])
                /\ coords' = [k \in 1..n |-> Clamp(Candidate(i, positive_locations[k]))]
                /\ candidates' = Append(candidates,
                        [level |-> i,
                         locations |-> positive_locations,
                         value |-> [k \in 1..n |-> Candidate(i, positive_locations[k])]])
    /\ i' = i + 1
    /\ UNCHANGED <<cls, reg, centerness, threshold, nms_threshold, use_raw_score,
                   pc, result>>

\* `if boxes: ... else: boxes = coords.new_empty(batch_size, 0, 6); return boxes, []`
Combine ==
    /\ pc = "loop"
    /\ i > Len(Strides)
    /\ IF boxes # <<>>
       THEN /\ boxes' = Cat(boxes)
            /\ batch_idx' = Cat(batch_idx)
            /\ pc' = "nms"
            /\ UNCHANGED result
       ELSE /\ result' = IF coords = Unbound
                         THEN [kind |-> "raise", exception |-> "UnboundLocalError"]
                         ELSE [kind |-> "tuple",
                               value |-> <<[b \in 1..batch_size |-> <<>>], <<>>>>]
            /\ pc' = "done"
            /\ UNCHANGED <<boxes, batch_idx>>
    /\ UNCHANGED <<cls, reg, centerness, threshold, nms_threshold, use_raw_score,
                   i, coords, candidates>>

\* (mutant) the image index not scaled by the number of classes
GroupId_Sum(b, c) == b + c

\* idx = (batch_idx * num_classes + cls.view_as(batch_idx)).view(-1).long()
GroupId(b, c) == b * num_classes + c

\* torchvision nms: area of a box, and whether the overlap ratio
\* inter / (area_a + area_b - inter) is greater than the threshold num/den
Area(r) == (r[3] - r[1]) * (r[4] - r[2])
Intersection(a, b) ==
    Max(0, Min(a[3], b[3]) - Max(a[1], b[1])) * Max(0, Min(a[4], b[4]) - Max(a[2], b[2]))
OverlapExceeds(a, b, thr) ==
    LET inter == Intersection(a, b)
        union == Area(a) + Area(b) - inter
    IN  IF union > 0 THEN inter * thr[2] > thr[1] * union
        ELSE IF union < 0 THEN inter * thr[2] < thr[1] * union
        ELSE inter > 0

\* the orders in which a descending sort by score may visit the boxes
\* (the sort is not stable: equal scores come in either order)
RECURSIVE DescendingOrders(_, _)
DescendingOrders(S, score) ==
    IF S = {} THEN {<<>>}
    ELSE LET top == {m \in S : \A q \in S : score[m] >= score[q]}
         IN  UNION {{<<m>> \o rest : rest \in DescendingOrders(S \ {m}, score)} : m \in top}

\* torchvision batched_nms: greedy suppression in descending score order; boxes
\* of different group ids are moved apart and never overlap
RECURSIVE NmsKeep(_, _, _, _, _, _)
NmsKeep(order, k, kept, rows, idx, thr) ==
    IF k > Len(order) THEN kept
    ELSE LET c == order[k]
             suppressed == \E j \in 1..Len(kept) :
                              /\ idx[kept[j]] = idx[c]
                              /\ OverlapExceeds(rows[kept[j]], rows[c], thr)
         IN  NmsKeep(order, k + 1, IF suppressed THEN kept ELSE Append(kept, c),
                     rows, idx, thr)

\* `if nms_threshold is not None: ... boxes = boxes[keep, :]`
ApplyNMS ==
    /\ pc = "nms"
    /\ IF NmsThreshold # None
       THEN LET n == Len(boxes)
                scaled_score == [k \in 1..n |-> boxes[k][6]]
                idx == [k \in 1..n |-> GroupId(batch_idx[k], boxes[k][7])]
            IN  \E order \in DescendingOrders(1..n, scaled_score) :
                    LET keep == NmsKeep(order, 1, <<>>, boxes, idx, NmsThreshold)
                    IN  /\ boxes' = [k \in 1..Len(keep) |-> boxes[keep[k]]]
                        /\ batch_idx' = [k \in 1..Len(keep) |-> batch_idx[keep[k]]]
                        /\ coords' = [k \in 1..n |-> SubSeq(boxes[k], 1, 4)]
       ELSE UNCHANGED <<boxes, batch_idx, coords>>
    /\ pc' = "score"
    /\ UNCHANGED <<cls, reg, centerness, threshold, nms_threshold, use_raw_score,
                   i, candidates, result>>

\* (mutant) no column is dropped from the 7-column rows
ScoreColumns_AllColumns(row) == row

\* (mutant) the raw and the scaled score columns exchanged
ScoreColumns_Swapped(row) ==
    IF use_raw_score
    THEN <<row[1], row[2], row[3], row[4], row[6], row[7]>>
    ELSE <<row[1], row[2], row[3], row[4], row[5], row[7]>>

\* boxes[..., (0, 1, 2, 3, 4, 6)] if use_raw_score else boxes[..., (0, 1, 2, 3, 5, 6)]
ScoreColumns(row) ==
    IF use_raw_score
    THEN <<row[1], row[2], row[3], row[4], row[5], row[7]>>
    ELSE <<row[1], row[2], row[3], row[4], row[6], row[7]>>

SelectScore ==
    /\ pc = "score"
    /\ boxes' = [k \in 1..Len(boxes) |-> ScoreColumns(boxes[k])]
    /\ pc' = "pack"
    /\ UNCHANGED <<cls, reg, centerness, threshold, nms_threshold, use_raw_score,
                   i, batch_idx, coords, candidates, result>>

\* (mutant) the images counted from 1 in the mask
BoxesOfImage_OneBased(b) ==
    LET RECURSIVE Pick(_)
        Pick(k) == IF k > Len(boxes) THEN <<>>
                   ELSE (IF batch_idx[k] = b + 1 THEN <<boxes[k]>> ELSE <<>>) \o Pick(k + 1)
    IN  Pick(1)

\* boxes[(batch_idx == i).view(-1), :]
BoxesOfImage(b) ==
    LET RECURSIVE Pick(_)
        Pick(k) == IF k > Len(boxes) THEN <<>>
                   ELSE (IF batch_idx[k] = b THEN <<boxes[k]>> ELSE <<>>) \o Pick(k + 1)
    IN  Pick(1)

\* combustion.vision.batch_box_target: pad every image's rows with pad_value up
\* to the longest and stack them
BatchBoxTarget(target, pad_value) ==
    LET max_boxes == CHOOSE m \in {Len(target[b]) : b \in DOMAIN target} :
                        \A b \in DOMAIN target : Len(target[b]) <= m
        padding == [c \in 1..6 |-> pad_value]
    IN  [b \in DOMAIN target |->
            target[b] \o [k \in 1..(max_boxes - Len(target[b])) |-> padding]]

\* `boxes = [boxes[(batch_idx == i).view(-1), :] for i in range(batch_size)]`
\* `boxes = batch_box_target(boxes, pad_value) ; return boxes`
Pack ==
    /\ pc = "pack"
    /\ result' = [kind |-> "tensor",
                  value |-> BatchBoxTarget([b \in 1..batch_size |-> BoxesOfImage(b - 1)],
                                           PadValue)]
    /\ pc' = "done"
    /\ UNCHANGED <<cls, reg, centerness, threshold, nms_threshold, use_raw_score,
                   i, boxes, batch_idx, coords, candidates>>

\* the parts of the library a specification is not about are not running
DetIdle ==
    /\ det_model = Unbound /\ det_inputs = Unbound /\ det_pc = "idle"
    /\ det_output = Unbound /\ det_result = [kind |-> "none"]
CbxIdle ==
    /\ cbx_args = Unbound /\ cbx_pc = "idle" /\ cbx_i = 0
    /\ cbx_result = [kind |-> "none"]
PreIdle ==
    /\ default_blocks = Unbound /\ built = <<>>
TscIdle ==
    /\ self_path = Unbound /\ self_trace = Unbound /\ self_sample_input = Unbound
    /\ given = Unbound /\ calls = <<>>
GauIdle ==
    /\ gau = Unbound /\ gau_in = Unbound /\ gau_pc = "idle" /\ gau_low = Unbound
    /\ gau_weights = Unbound /\ gau_high = Unbound /\ gau_result = [kind |-> "none"]
ModelsIdle == DetIdle /\ CbxIdle /\ PreIdle
OthersIdle == TscIdle /\ GauIdle
modelsVars == <<detVars, cbxVars, preVars>>
othersVars == <<tscVars, gauVars>>

RHIdle ==
    /\ heatmap = <<>> /\ rh_pc = "idle" /\ rh_i = 0 /\ rh_acc = Unbound
    /\ rh_result = [kind |-> "none"]
FWIdle ==
    /\ fpn = <<>> /\ fw_cls = Unbound /\ fw_heads = Unbound /\ fw_pc = "idle"
    /\ fw_result = [kind |-> "none"]

Init == PPInit /\ RHIdle /\ FWIdle /\ ModelsIdle /\ OthersIdle

Next ==
    \/ LevelStep /\ UNCHANGED <<rhVars, fwVars, modelsVars, othersVars>>
    \/ Combine /\ UNCHANGED <<rhVars, fwVars, modelsVars, othersVars>>
    \/ ApplyNMS /\ UNCHANGED <<rhVars, fwVars, modelsVars, othersVars>>
    \/ SelectScore /\ UNCHANGED <<rhVars, fwVars, modelsVars, othersVars>>
    \/ Pack /\ UNCHANGED <<rhVars, fwVars, modelsVars, othersVars>>

Spec == Init /\ [][Next]_vars

---------------------------------------------------------------------------
(* Claims about FCOSDecoder.postprocess                                    *)

Padding == [c \in 1..6 |-> PadValue]

\* some location of some level passes the (absolute) threshold
AnyPositive ==
    \E lv \in Levels : \E p \in ClsIndex(lv) : cls[lv][p] >= Abs(threshold)

Returned == pc = "done" /\ result.kind = "tensor"

\* the rows of image b (0-based) in the returned tensor that are not padding
ReturnedBoxes(b) == SelectSeq(result.value[b + 1], LAMBDA row : row # Padding)

\* the positive locations <<lv, p>> of the pyramid, as the claims define them
PositiveSet ==
    {l \in Locations : cls[l[1]][l[2]] >= Abs(threshold)}

\* the box the claims expect of location <<lv, p>>: clamped corners, the raw or
\* the centerness-scaled score, the class
ExpectedBox(l) ==
    LET lv == l[1]
        p == l[2]
        s == Strides[lv]
        cx == p[4] * s + (s \div 2)
        cy == p[3] * s + (s \div 2)
        o == reg[lv][<<p[1], p[3], p[4]>>]
        c == cls[lv][p]
        score == IF use_raw_score THEN c
                 ELSE Sqrt(c * centerness[lv][<<p[1], p[3], p[4]>>])
    IN  Clamp(<<cx - o[1], cy - o[2], cx + o[3], cy + o[4]>>) \o <<score, p[2]>>

\* C1: with at least one location passing the threshold, postprocess returns a
\* single tensor of shape (batch_size, N, 6): one group of N rows per image,
\* every row of 6 columns; never a tuple, never another last dimension.
C1_SingleTensorOfSixColumns ==
    (pc = "done" /\ AnyPositive) =>
        /\ result.kind = "tensor"
        /\ DOMAIN result.value = 1..batch_size
        /\ \A b \in 1..batch_size :
              /\ Len(result.value[b]) = Len(result.value[1])
              /\ \A k \in 1..Len(result.value[b]) :
                    DOMAIN result.value[b][k] = 1..6

C1_Witness ==
    /\ pc = "done" /\ AnyPositive /\ result.kind = "tensor"
    /\ Len(result.value[1]) = 2
    /\ Len(ReturnedBoxes(1)) = 0

\* C2: with no location passing the threshold, postprocess completes without
\* raising and returns the empty tensor of shape (batch_size, 0, 6).
C2_EmptyTensorWhenNoPositive ==
    (pc = "done" /\ ~AnyPositive) =>
        /\ result.kind = "tensor"
        /\ result.value = [b \in 1..batch_size |-> <<>>]

C4_CandidateFromStrideAndOffsets ==
    \A n \in DOMAIN candidates :
       LET e == candidates[n]
           s == Strides[e.level]
       IN  \A k \in DOMAIN e.locations :
              LET p == e.locations[k]
                  cx == p[4] * s + (s \div 2)
                  cy == p[3] * s + (s \div 2)
                  o == reg[e.level][<<p[1], p[3], p[4]>>]
              IN  /\ cls[e.level][p] >= Abs(threshold)
                  /\ e.value[k] = <<cx - o[1], cy - o[2], cx + o[3], cy + o[4]>>

C4_Witness ==
    \E n \in DOMAIN candidates :
       /\ candidates[n].level = 1
       /\ \E k \in DOMAIN candidates[n].locations :
             /\ candidates[n].locations[k][4] = 1
             /\ candidates[n].value[k] = <<8, 1, 12, 3>>

\* C5: every returned non-padding box lies within the image, for any
\* regression values: 0 <= x1, x2 <= W_0 * strides[0] and
\* 0 <= y1, y2 <= H_0 * strides[0].
C5_BoxesWithinImage ==
    Returned =>
        \A b \in Images : \A k \in DOMAIN ReturnedBoxes(b) :
           LET row == ReturnedBoxes(b)[k]
           IN  /\ 0 <= row[1] /\ row[1] <= Width(1) * Strides[1]
               /\ 0 <= row[3] /\ row[3] <= Width(1) * Strides[1]
               /\ 0 <= row[2] /\ row[2] <= Height(1) * Strides[1]
               /\ 0 <= row[4] /\ row[4] <= Height(1) * Strides[1]

\* C6: the score column is the classification score of the box's location
\* when use_raw_score, and sqrt(cls * centerness) otherwise; the last column is
\* the class of the location, the first four its coordinates.  Every image's
\* returned boxes are boxes of its positive locations, each used at most once.
C6_ScoreColumnFollowsUseRawScore ==
    Returned =>
        \A b \in Images :
           LET rows == ReturnedBoxes(b)
               own == {l \in PositiveSet : l[2][1] = b}
           IN  \E f \in [DOMAIN rows -> own] :
                  /\ \A j, k \in DOMAIN rows : j # k => f[j] # f[k]
                  /\ \A k \in DOMAIN rows : rows[k] = ExpectedBox(f[k])

C6_Witness ==
    /\ Returned
    /\ ~use_raw_score
    /\ \E b \in Images : \E k \in DOMAIN ReturnedBoxes(b) :
          \E l \in PositiveSet :
             /\ ReturnedBoxes(b)[k] = ExpectedBox(l)
             /\ ReturnedBoxes(b)[k][5] = 2
             /\ cls[l[1]][l[2]] = 4

\* C7: the NMS group id batch_index * num_classes + class is distinct for
\* distinct (image, class) pairs, so NMS drops a box only because of a kept box
\* of the same image and the same class that overlaps it.
C7_GroupIdSeparatesImagesAndClasses ==
    /\ [](pc = "nms" =>
            \A j, k \in DOMAIN boxes :
               (GroupId(batch_idx[j], boxes[j][7]) = GroupId(batch_idx[k], boxes[k][7]))
                  <=> (batch_idx[j] = batch_idx[k] /\ boxes[j][7] = boxes[k][7]))
    /\ [][(pc = "nms" /\ nms_threshold # None) =>
            \A k \in DOMAIN boxes :
               \/ \E j \in DOMAIN boxes' :
                     boxes'[j] = boxes[k] /\ batch_idx'[j] = batch_idx[k]
               \/ \E j \in DOMAIN boxes' :
                     /\ batch_idx'[j] = batch_idx[k]
                     /\ boxes'[j][7] = boxes[k][7]
                     /\ boxes'[j][6] >= boxes[k][6]
                     /\ OverlapExceeds(boxes'[j], boxes[k],
                                       <<Abs(nms_threshold[1]), nms_threshold[2]>>)]_vars

\* two boxes with the same corners in different images, or of different
\* classes, both survive NMS
C7_Witness ==
    /\ pc = "score"
    /\ nms_threshold # None
    /\ Len(boxes) = 2
    /\ SubSeq(boxes[1], 1, 4) = SubSeq(boxes[2], 1, 4)
    /\ Area(boxes[1]) > 0
    /\ batch_idx[1] + boxes[1][7] = batch_idx[2] + boxes[2][7]
    /\ batch_idx[1] # batch_idx[2]

\* C8: image i's rows of the output are exactly the boxes that survived
\* thresholding and NMS and were predicted from image i, at every level, in
\* order, none lost, duplicated or moved to another image; the rows after an
\* image's own boxes are filled with pad_value.
C8_PackedPerImage ==
    Returned =>
        /\ \A b \in Images :
              LET rows == result.value[b + 1]
                  own == ReturnedBoxes(b)
                  kept == SelectSeq([k \in DOMAIN boxes |-> <<batch_idx[k], boxes[k]>>],
                                    LAMBDA e : e[1] = b)
              IN  /\ Len(own) = Len(kept)
                  /\ \A k \in DOMAIN own : own[k] = kept[k][2] /\ rows[k] = own[k]
                  /\ \A k \in (Len(own) + 1)..Len(rows) : rows[k] = Padding
                  /\ \E f \in [DOMAIN own -> {l \in PositiveSet : l[2][1] = b}] :
                        /\ \A j, k \in DOMAIN own : j # k => f[j] # f[k]
                        /\ \A k \in DOMAIN own : own[k] = ExpectedBox(f[k])
                  /\ nms_threshold = None =>
                        Len(own) = Cardinality({l \in PositiveSet : l[2][1] = b})
        /\ \E b \in Images : Len(ReturnedBoxes(b)) = Len(result.value[b + 1])

\* image 1 has a box from each level, image 0 has none and is all padding
C8_Witness ==
    /\ Returned
    /\ Len(ReturnedBoxes(0)) = 0
    /\ Len(ReturnedBoxes(1)) = 2
    /\ result.value[1] = <<Padding, Padding>>
    /\ Len(candidates) = 2

---------------------------------------------------------------------------
(* BaseFCOSDecoder.reduce_heatmaps                                         *)

\* shapes <<H, W>> of the heatmap levels a call may be given, and their values
HeatShapes == << <<1, 2>>, <<1, 1>>, <<1, 1>> >>
HeatVals == {0, 1, 4}
HeatIndex(lv) == {<<y, x>> : y \in 0..(HeatShapes[lv][1] - 1),
                             x \in 0..(HeatShapes[lv][2] - 1)}

\* the names bound at module level in fcos.py: its imports and its classes
ModuleNames ==
    {"ABC", "abstractclassmethod", "Callable", "List", "Optional", "Tuple",
     "torch", "nn", "Tensor", "batched_nms", "batch_box_target", "SharedDecoder2d",
     "BaseFCOSDecoder", "FCOSDecoder"}

\* the parameters and locals of reduce_heatmaps, and the builtins it uses
ReduceLocals == {"heatmap", "reduction", "mode", "result", "i", "current_level"}
Builtins == {"range", "len"}

\* the names of a statement, in evaluation order, that resolve nowhere
Unresolved(names) ==
    SelectSeq(names, LAMBDA n : n \notin (ReduceLocals \cup ModuleNames \cup Builtins))

RHInit ==
    /\ \E n \in 1..Len(HeatShapes) :
          heatmap \in [1..n -> UNION {[HeatIndex(lv) -> HeatVals] : lv \in 1..n}]
    /\ \A lv \in DOMAIN heatmap : DOMAIN heatmap[lv] = HeatIndex(lv)
    /\ rh_pc = "start"
    /\ rh_i = 0
    /\ rh_acc = Unbound
    /\ rh_result = [kind |-> "none"]

\* result = heatmap[0]
RhStart ==
    /\ rh_pc = "start"
    /\ rh_acc' = heatmap[1]
    /\ rh_pc' = "loop"
    /\ UNCHANGED <<heatmap, rh_i, rh_result>>

\* an iteration of `for i in range(len(heatmap) - 1)`:
\*     current_level = F.interpolate(heatmap[i + 1], result.shape[-2:], mode=mode)
\*     result = combine(current_level, result)
\* neither F nor combine is bound in the module: the first lookup raises
RhIterate ==
    /\ rh_pc = "loop"
    /\ rh_i < Len(heatmap) - 1
    /\ Unresolved(<<"F", "heatmap", "i", "result", "mode", "combine">>) # <<>>
    /\ rh_result' = [kind |-> "raise", exception |-> "NameError",
                     name |-> Head(Unresolved(<<"F", "heatmap", "i", "result", "mode",
                                                "combine">>))]
    /\ rh_pc' = "done"
    /\ UNCHANGED <<heatmap, rh_i, rh_acc>>

\* after the loop: `return top`, and top is bound nowhere
RhReturn ==
    /\ rh_pc = "loop"
    /\ rh_i >= Len(heatmap) - 1
    /\ Unresolved(<<"top">>) # <<>>
    /\ rh_result' = [kind |-> "raise", exception |-> "NameError",
                     name |-> Head(Unresolved(<<"top">>))]
    /\ rh_pc' = "done"
    /\ UNCHANGED <<heatmap, rh_i, rh_acc>>

PPIdle ==
    /\ cls = <<>> /\ reg = <<>> /\ centerness = <<>>
    /\ threshold = 0 /\ nms_threshold = None /\ use_raw_score = FALSE
    /\ pc = "idle" /\ i = 0 /\ boxes = <<>> /\ batch_idx = <<>>
    /\ coords = Unbound /\ candidates = <<>> /\ result = [kind |-> "none"]

InitReduce == PPIdle /\ RHInit /\ FWIdle /\ ModelsIdle /\ OthersIdle

NextReduce ==
    \/ RhStart /\ UNCHANGED <<ppVars, fwVars, modelsVars, othersVars>>
    \/ RhIterate /\ UNCHANGED <<ppVars, fwVars, modelsVars, othersVars>>
    \/ RhReturn /\ UNCHANGED <<ppVars, fwVars, modelsVars, othersVars>>

SpecReduce == InitReduce /\ [][NextReduce]_vars

\* nearest-neighbour resize of level lv's heatmap to the shape of level 1
ResizedToFirst(lv) ==
    [q \in HeatIndex(1) |->
        heatmap[lv][<<(q[1] * HeatShapes[lv][1]) \div HeatShapes[1][1],
                      (q[2] * HeatShapes[lv][2]) \div HeatShapes[1][2]>>]]

\* the elementwise max of the first n levels, each resized to level 1's shape
RECURSIVE FusedByMax(_)
FusedByMax(n) ==
    IF n = 1 THEN heatmap[1]
    ELSE [q \in HeatIndex(1) |-> Max(ResizedToFirst(n)[q], FusedByMax(n - 1)[q])]

\* C9: for any non-empty tuple of heatmaps reduce_heatmaps returns a tensor of
\* the shape of heatmap[0], the fold of the reduction (elementwise max) over
\* all levels, each resized to that shape; for one level, heatmap[0] itself.
C9_ReduceHeatmapsFusesLevels ==
    rh_pc = "done" =>
        /\ rh_result.kind = "return"
        /\ rh_result.value = FusedByMax(Len(heatmap))

---------------------------------------------------------------------------
(* BaseFCOSDecoder.forward, as constructed by FCOSDecoder.__init__          *)

\* FCOSDecoder.__init__ passes num_regressions = 4 to BaseFCOSDecoder
num_regressions == 4

\* index set of a tensor of shape (BatchSize, channels, H, W)
TensorIndex(channels, shape) ==
    {<<b, c, y, x>> : b \in Images, c \in 0..(channels - 1),
                      y \in 0..(shape[1] - 1), x \in 0..(shape[2] - 1)}

\* what the regression head may put in the channels of one position
HeadVecs == {<<-1, -2, 2, 0, 3>>, <<2, 1, -2, 3, 0>>, <<0, 5, -1, -3, 1>>}

\* the classification head's values play no part in forward's own code
ClsHeadVecs == {[c \in 1..NumClasses |-> 0]}

\* fpn_shared_head.SharedDecoder2d(in_channels, out_channels, ...)(fpn): one
\* tensor per level, of shape (N, out_channels, H_i, W_i); the out_channels
\* values of each position are one of vecs
LevelOutputs(shape, out_channels, vecs) ==
    {[q \in TensorIndex(out_channels, shape) |-> ch[<<q[1], q[3], q[4]>>][q[2] + 1]] :
        ch \in [{<<q[1], q[3], q[4]>> : q \in TensorIndex(out_channels, shape)} -> vecs]}

RECURSIVE SharedDecoder2d(_, _, _)
SharedDecoder2d(levels, out_channels, vecs) ==
    IF levels = <<>> THEN {<<>>}
    ELSE {<<t>> \o rest : t \in LevelOutputs(Head(levels), out_channels, vecs),
                          rest \in SharedDecoder2d(Tail(levels), out_channels, vecs)}

\* layer[..., lo:hi, :, :]
SliceChannels(layer, lo, hi) ==
    LET picked == {p \in DOMAIN layer : lo <= p[2] /\ p[2] < hi}
    IN  [q \in {<<p[1], p[2] - lo, p[3], p[4]>> : p \in picked} |->
            layer[<<q[1], q[2] + lo, q[3], q[4]>>]]

\* nn.ReLU, the reg_activation FCOSDecoder.__init__ passes (in place on the
\* view of channels 1.., which leaves channel 0 as it was)
reg_activation(t) == [q \in DOMAIN t |-> Max(t[q], 0)]

\* (mutant) centerness read from the last channel instead of the first
CenternessOf_LastChannel(layer) == SliceChannels(layer, num_regressions, num_regressions + 1)

\* centerness = [layer[..., 0:1, :, :] for layer in _]
CenternessOf(layer) == SliceChannels(layer, 0, 1)

\* reg = [self.reg_activation(layer[..., 1:, :, :]) for layer in _]
RegressionOf(layer) == reg_activation(SliceChannels(layer, 1, num_regressions + 1))

FWInit ==
    /\ fpn \in {SubSeq(Shapes, 1, n) : n \in 1..Len(Shapes)}
    /\ fw_cls = Unbound
    /\ fw_heads = Unbound
    /\ fw_pc = "heads"
    /\ fw_result = [kind |-> "none"]

\* cls = self.cls_head(fpn) ; _ = self.reg_head(fpn)
FwHeads ==
    /\ fw_pc = "heads"
    /\ fw_cls' \in SharedDecoder2d(fpn, num_classes, ClsHeadVecs)
    /\ fw_heads' \in SharedDecoder2d(fpn, num_regressions + 1, HeadVecs)
    /\ fw_pc' = "split"
    /\ UNCHANGED <<fpn, fw_result>>

\* centerness = [...] ; reg = [...] ; return cls, reg, centerness
FwSplit ==
    /\ fw_pc = "split"
    /\ fw_result' = [kind |-> "return",
                     value |-> <<fw_cls,
                                 [lv \in DOMAIN fw_heads |-> RegressionOf(fw_heads[lv])],
                                 [lv \in DOMAIN fw_heads |-> CenternessOf(fw_heads[lv])]>>]
    /\ fw_pc' = "done"
    /\ UNCHANGED <<fpn, fw_cls, fw_heads>>

InitForward == PPIdle /\ RHIdle /\ FWInit /\ ModelsIdle /\ OthersIdle

NextForward ==
    \/ FwHeads /\ UNCHANGED <<ppVars, rhVars, modelsVars, othersVars>>
    \/ FwSplit /\ UNCHANGED <<ppVars, rhVars, modelsVars, othersVars>>

SpecForward == InitForward /\ [][NextForward]_vars

\* C10: forward returns three lists (classification, regression, centerness)
\* with one entry per FPN level in level order, of shapes (N, num_classes,
\* H_i, W_i), (N, 4, H_i, W_i), (N, 1, H_i, W_i); centerness is channel 0 of the
\* regression head's output and regression its other 4 channels after the
\* regression activation (ReLU).
C10_ForwardSplitsRegressionHead ==
    fw_pc = "done" =>
        /\ fw_result.kind = "return"
        /\ Len(fw_result.value) = 3
        /\ \A n \in 1..3 : DOMAIN fw_result.value[n] = DOMAIN fpn
        /\ \A lv \in DOMAIN fpn :
              LET c == fw_result.value[1][lv]
                  r == fw_result.value[2][lv]
                  ctr == fw_result.value[3][lv]
              IN  /\ DOMAIN c = TensorIndex(NumClasses, fpn[lv])
                  /\ DOMAIN r = TensorIndex(4, fpn[lv])
                  /\ DOMAIN ctr = TensorIndex(1, fpn[lv])
                  /\ \A q \in DOMAIN ctr : ctr[q] = fw_heads[lv][q]
                  /\ \A q \in DOMAIN r :
                        LET raw == fw_heads[lv][<<q[1], q[2] + 1, q[3], q[4]>>]
                        IN  r[q] = IF raw > 0 THEN raw ELSE 0

\* two levels, a negative regression channel cut to 0 and a centerness that
\* differs from every regression channel of its position
C10_Witness ==
    /\ fw_pc = "done"
    /\ Len(fpn) = 2
    /\ \E q \in DOMAIN fw_heads[2] : /\ q[2] = 1
                                     /\ fw_heads[2][q] < 0
                                     /\ fw_result.value[2][2][<<q[1], 0, q[3], q[4]>>] = 0
    /\ \E q \in DOMAIN fw_result.value[3][1] : fw_result.value[3][1][q] = -1

\* ======================================================================
\* EfficientDetFCOS.forward and MultiLevelHead (models/efficientdet_fcos.py)
\*
\* Tensors are modelled by their shapes <<N, C, H, W>>; the empty tuple is
\* the shape of nothing, the outcome of a layer that rejects its input.
\* ======================================================================

MaxFpnLevels == 3
FpnFilters == {4, 8}
\* an optional integer is None or the one-element tuple of its value
HeadRepeats == {None, <<1>>, <<2>>}
InputShapes == {<<n, 3, s[1], s[2]>> : n \in 1..BatchSize, s \in {<<32, 32>>, <<64, 32>>}}

Rejected == <<>>

RECURSIVE Pow2(_)
Pow2(k) == IF k = 0 THEN 1 ELSE 2 * Pow2(k - 1)

\* torch.nn layers, as far as shapes and parameter counts go
Conv2d(in_channels, out_channels, kernel_size, padding, bias, groups) ==
    [op |-> "Conv2d", in_channels |-> in_channels, out_channels |-> out_channels,
     kernel_size |-> kernel_size, padding |-> padding, bias |-> bias, groups |-> groups]
BatchNorm2d(num_features) == [op |-> "BatchNorm2d", num_features |-> num_features]
Hardswish == [op |-> "Hardswish"]

ApplyLayer(layer, x) ==
    IF x = Rejected THEN Rejected
    ELSE IF layer.op = "Conv2d" THEN
        IF x[2] # layer.in_channels THEN Rejected
        ELSE <<x[1], layer.out_channels,
               x[3] + 2 * layer.padding - layer.kernel_size + 1,
               x[4] + 2 * layer.padding - layer.kernel_size + 1>>
    ELSE IF layer.op = "BatchNorm2d" THEN
        IF x[2] # layer.num_features THEN Rejected ELSE x
    ELSE x

RECURSIVE Sequential(_, _)
Sequential(layers, x) ==
    IF layers = <<>> THEN x ELSE Sequential(Tail(layers), ApplyLayer(Head(layers), x))

\* MultiLevelHead._get_repeat
get_repeat(in_channels, out_channels, is_last) ==
    << Conv2d(in_channels, in_channels, 3, 1, FALSE, in_channels),
       Conv2d(in_channels, out_channels, 1, 0, is_last, 1) >>
    \o (IF ~is_last THEN <<BatchNorm2d(in_channels), Hardswish>> ELSE <<>>)

RECURSIVE Flatten(_)
Flatten(ss) == IF ss = <<>> THEN <<>> ELSE Head(ss) \o Flatten(Tail(ss))

\* MultiLevelHead.__init__; the loop index i runs over 0 .. num_repeats-1
MultiLevelHead(in_channels, classes, num_repeats) ==
    [cls_head |-> Flatten([k \in 1..num_repeats |->
                    get_repeat(in_channels,
                               IF k - 1 < num_repeats - 1 THEN in_channels ELSE classes,
                               k - 1 = num_repeats - 1)]),
     reg_head |-> Flatten([k \in 1..num_repeats |->
                    get_repeat(in_channels,
                               IF k - 1 < num_repeats - 1 THEN in_channels ELSE 5,
                               k - 1 = num_repeats - 1)])]

\* x[..., a:b, :, :] on a shape
ChannelSlice(x, a, b) ==
    IF x = Rejected THEN Rejected
    ELSE <<x[1], Max(Min(b, x[2]) - Min(a, x[2]), 0), x[3], x[4]>>

CenternessSlice(x) == ChannelSlice(x, 0, 1)
RegressionSlice_Whole(x) == x
\* F.relu and the product with the scalar i-1 ** 2 keep the shape
RegressionSlice(x) == IF x = Rejected THEN Rejected ELSE ChannelSlice(x, 1, x[2])

\* MultiLevelHead.forward
HeadForward(head, inputs) ==
    LET cls_pred == [k \in DOMAIN inputs |-> Sequential(head.cls_head, inputs[k])]
        reg_pred == [k \in DOMAIN inputs |-> Sequential(head.reg_head, inputs[k])]
        ctr_pred == [k \in DOMAIN inputs |-> CenternessSlice(reg_pred[k])]
    IN  [cls_pred |-> cls_pred,
         reg_pred |-> [k \in DOMAIN inputs |-> RegressionSlice(reg_pred[k])],
         centerness |-> ctr_pred]

\* EfficientDetFCOS.__init__: the number of head repeats
NumRepeats(head_repeats, has_compound_coeff, compound_coeff) ==
    IF head_repeats = None
    THEN IF has_compound_coeff THEN 3 + compound_coeff \div 3 ELSE 3
    ELSE head_repeats[1]

EfficientDetFCOS(classes, fpn_levels, fpn_filters, head_repeats) ==
    [num_classes |-> classes, fpn_levels |-> fpn_levels, fpn_filters |-> fpn_filters,
     head |-> MultiLevelHead(fpn_filters, classes, NumRepeats(head_repeats, FALSE, 0))]

\* EfficientDet2d.extract_features: one feature map of fpn_filters channels
\* per FPN level, level i at 1/2^(i+2) of the input's size
extract_features(model, inputs) ==
    [k \in 1..Len(model.fpn_levels) |->
        <<inputs[1], model.fpn_filters,
          inputs[3] \div Pow2(k - 1 + 2), inputs[4] \div Pow2(k - 1 + 2)>>]

DetInit ==
    /\ det_model \in {EfficientDetFCOS(nc, [k \in 1..l |-> k], f, r) :
                        nc \in 1..NumClasses, l \in 1..MaxFpnLevels,
                        f \in FpnFilters, r \in HeadRepeats}
    /\ det_inputs \in InputShapes
    /\ det_pc = "extract"
    /\ det_output = Unbound
    /\ det_result = [kind |-> "none"]

\* output = self.extract_features(inputs)
DetExtract ==
    /\ det_pc = "extract"
    /\ det_output' = extract_features(det_model, det_inputs)
    /\ det_pc' = "head"
    /\ UNCHANGED <<det_model, det_inputs, det_result>>

\* output = self.head(output); return output
DetHead ==
    /\ det_pc = "head"
    /\ det_output' = HeadForward(det_model.head, det_output)
    /\ det_result' = [kind |-> "return", value |-> det_output']
    /\ det_pc' = "done"
    /\ UNCHANGED <<det_model, det_inputs>>

InitDet == PPIdle /\ RHIdle /\ FWIdle /\ DetInit /\ CbxIdle /\ PreIdle /\ OthersIdle
NextDet ==
    \/ DetExtract /\ UNCHANGED <<ppVars, rhVars, fwVars, cbxVars, preVars, othersVars>>
    \/ DetHead /\ UNCHANGED <<ppVars, rhVars, fwVars, cbxVars, preVars, othersVars>>
SpecDet == InitDet /\ [][NextDet]_vars

Containers == {"list", "tuple"}
BaseSizes == {8, 16}
BoxThresholds == {1, 2}

\* the names bound when the loop body runs: the parameters, the loop targets
\* and the targets of the assignments above the line that reads the name
CreateBoxesLocals ==
    {"cls", "reg", "centerness", "strides", "threshold", "pad_value",
     "i", "c", "r", "cent", "batch", "center_y", "center_x", "stride"}

\* the per-level predictions of a model on a base_size input, as the test
\* builds them: level k has stride 2^(k+2)
LevelPredictions(container, levels, n, classes, base, channels) ==
    [type |-> container,
     items |-> [k \in 1..levels |->
                  [type |-> "Tensor",
                   shape |-> <<n, channels, base \div Pow2(k + 2), base \div Pow2(k + 2)>>]]]

CbxInit ==
    /\ cbx_args \in
         {[cls |-> LevelPredictions(t, l, n, nc, b, nc),
           reg |-> LevelPredictions(t, l, n, nc, b, 4),
           centerness |-> LevelPredictions(t, l, n, nc, b, 1),
           strides |-> [k \in 1..l |-> Pow2(k + 2)],
           threshold |-> th] :
             t \in Containers, l \in 0..MaxFpnLevels, n \in 1..BatchSize,
             nc \in 1..NumClasses, b \in BaseSizes, th \in BoxThresholds}
    /\ cbx_pc = "loop"
    /\ cbx_i = 0
    /\ cbx_result = [kind |-> "none"]

\* the first pass through the loop body (lines 196-201); `cls` is still the
\* parameter, the whole per-level container
CbxIterate ==
    /\ cbx_pc = "loop"
    /\ cbx_i < Len(cbx_args.cls.items)
    /\ cbx_result' =
         IF cbx_args.cls.type # "Tensor"
         THEN \* cent.expand_as(cls) takes a Tensor
              [kind |-> "raise", error |-> "TypeError", line |-> 196]
         ELSE IF cbx_i >= Len(cbx_args.strides)
         THEN [kind |-> "raise", error |-> "IndexError", line |-> 198]
         ELSE IF "center" \notin CreateBoxesLocals
         THEN [kind |-> "raise", error |-> "NameError", line |-> 200]
         ELSE [kind |-> "raise", error |-> "NameError", line |-> 201]
    /\ cbx_pc' = "done"
    /\ UNCHANGED <<cbx_args, cbx_i>>

\* the loop has nothing to iterate over; the body ends with the expression
\* `...` and the function falls off its end
CbxReturn ==
    /\ cbx_pc = "loop"
    /\ cbx_i >= Len(cbx_args.cls.items)
    /\ cbx_result' = [kind |-> "return", value |-> None]
    /\ cbx_pc' = "done"
    /\ UNCHANGED <<cbx_args, cbx_i>>

InitCbx == PPIdle /\ RHIdle /\ FWIdle /\ DetIdle /\ CbxInit /\ PreIdle /\ OthersIdle
NextCbx ==
    \/ CbxIterate /\ UNCHANGED <<ppVars, rhVars, fwVars, detVars, preVars, othersVars>>
    \/ CbxReturn /\ UNCHANGED <<ppVars, rhVars, fwVars, detVars, preVars, othersVars>>
SpecCbx == InitCbx /\ [][NextCbx]_vars

\* C12: create_boxes, called with per-level prediction lists of matching
\* length, completes without raising and returns a pair (boxes, locations).
C12_CreateBoxesReturnsPair ==
    cbx_pc = "done" =>
        /\ cbx_result.kind = "return"
        /\ cbx_result.value # None
        /\ Len(cbx_result.value) = 2

\* ======================================================================
\* EfficientDetFCOS.from_predefined (models/efficientdet_fcos.py)
\*
\* A float is modelled by the exact fraction <<numerator, denominator>>.
\* ======================================================================

MaxCalls == 3
CompoundCoeffs == {0, 1, 2}
ClassCounts == {1, 3}
\* the classes from_predefined is called on: the class and a subclass of it
ModelClasses == {"EfficientDetFCOS", "Subclass"}
NoKwargs == [k \in {} |-> None]
Kwargs == {NoKwargs, [fpn_repeats |-> 1, fpn_levels |-> <<3, 5>>, head_repeats |-> None]}

\* EfficientNet's block list: input filters, output filters, repeats
DefaultBlocks ==
    << [input_filters |-> 32, output_filters |-> 16, num_repeats |-> 1],
       [input_filters |-> 16, output_filters |-> 24, num_repeats |-> 2],
       [input_filters |-> 24, output_filters |-> 40, num_repeats |-> 2] >>

RECURSIVE Power(_, _)
Power(b, e) == IF e = 0 THEN 1 ELSE b * Power(b, e - 1)

\* base ** exponent for the decimal base num/den
FloatPower(num, den, e) == <<Power(num, e), Power(den, e)>>

\* int(k * f) for a non-negative fraction f
IntOfProduct(k, f) == (k * f[1]) \div f[2]

\* dict.update
Update_KeepPredefined(d, kw) ==
    [k \in DOMAIN d \cup DOMAIN kw |-> IF k \in DOMAIN d THEN d[k] ELSE kw[k]]
Update(d, kw) ==
    [k \in DOMAIN d \cup DOMAIN kw |-> IF k \in DOMAIN kw THEN kw[k] ELSE d[k]]

\* the dictionary final_kwargs before kwargs is merged in (lines 156-179)
PredefinedKwargs_D0(compound_coeff, classes, blocks) ==
    [num_classes |-> classes,
     block_configs |-> blocks,
     width_coeff |-> <<1, 1>>,
     depth_coeff |-> <<1, 1>>,
     width_divisor |-> <<8, 1>>,
     fpn_filters |-> 64,
     fpn_repeats |-> 3,
     fpn_levels |-> <<3, 5, 7, 8, 9>>,
     head_repeats |-> <<4>>]
PredefinedKwargs(compound_coeff, classes, blocks) ==
    [num_classes |-> classes,
     block_configs |-> blocks,
     width_coeff |-> FloatPower(11, 10, compound_coeff),
     depth_coeff |-> FloatPower(12, 10, compound_coeff),
     width_divisor |-> <<8, 1>>,
     fpn_filters |-> IntOfProduct(64, FloatPower(135, 100, compound_coeff)),
     fpn_repeats |-> 3 + compound_coeff,
     fpn_levels |-> <<3, 5, 7, 8, 9>>,
     head_repeats |-> <<4 + compound_coeff \div 3>>]

\* number of parameters of a layer and of a stack of layers
LayerParams(layer) ==
    IF layer.op = "Conv2d"
    THEN layer.out_channels * (layer.in_channels \div layer.groups)
            * layer.kernel_size * layer.kernel_size
         + (IF layer.bias THEN layer.out_channels ELSE 0)
    ELSE IF layer.op = "BatchNorm2d" THEN 2 * layer.num_features
    ELSE 0

RECURSIVE StackParams(_)
StackParams(layers) ==
    IF layers = <<>> THEN 0 ELSE LayerParams(Head(layers)) + StackParams(Tail(layers))

HeadParams(head) == StackParams(head.cls_head) + StackParams(head.reg_head)

\* EfficientDet2d.__init__: the blocks scaled by the width and depth
\* coefficients (filters rounded to the divisor, repeats rounded up), built
\* from a copy of block_configs, and the size of the backbone and BiFPN that
\* are built from them
RoundFilters(filters, width_coeff, divisor) ==
    LET scaled == (filters * width_coeff[1] + (divisor \div 2) * width_coeff[2])
                    \div width_coeff[2]
        rounded == Max(divisor, (scaled \div divisor) * divisor)
    IN  IF 10 * rounded * width_coeff[2] < 9 * filters * width_coeff[1]
        THEN rounded + divisor ELSE rounded

RoundRepeats(repeats, depth_coeff) ==
    (repeats * depth_coeff[1] + depth_coeff[2] - 1) \div depth_coeff[2]

ScaledBlocks(args) ==
    [k \in DOMAIN args.block_configs |->
        LET b == args.block_configs[k]
            divisor == args.width_divisor[1] \div args.width_divisor[2]
        IN  [input_filters |-> RoundFilters(b.input_filters, args.width_coeff, divisor),
             output_filters |-> RoundFilters(b.output_filters, args.width_coeff, divisor),
             num_repeats |-> RoundRepeats(b.num_repeats, args.depth_coeff)]]

RECURSIVE BlocksParams(_)
BlocksParams(blocks) ==
    IF blocks = <<>> THEN 0
    ELSE Head(blocks).num_repeats * Head(blocks).input_filters * Head(blocks).output_filters
         + BlocksParams(Tail(blocks))

BackboneParams(args) ==
    BlocksParams(ScaledBlocks(args))
    + args.fpn_repeats * Len(args.fpn_levels) * args.fpn_filters * args.fpn_filters

\* the constructor leaves the list it is given as it was
BlocksAfterInit(block_configs) == block_configs

\* cls(**final_kwargs), then result.compound_coeff = compound_coeff
Construct(clazz, args) ==
    LET repeats == NumRepeats(args.head_repeats, FALSE, 0)
        head == MultiLevelHead(args.fpn_filters, args.num_classes, repeats)
    IN  [class |-> clazz, args |-> args, num_repeats |-> repeats,
         parameters |-> BackboneParams(args) + HeadParams(head)]

from_predefined(clazz, compound_coeff, classes, kwargs, blocks) ==
    LET final_kwargs == Update(PredefinedKwargs(compound_coeff, classes, blocks), kwargs)
        built_model == Construct(clazz, final_kwargs)
    IN  [k \in DOMAIN built_model \cup {"compound_coeff"} |->
            IF k = "compound_coeff" THEN compound_coeff ELSE built_model[k]]

PreInit ==
    /\ default_blocks = DefaultBlocks
    /\ built = <<>>

FromPredefined ==
    /\ Len(built) < MaxCalls
    /\ \E clazz \in ModelClasses, cc \in CompoundCoeffs, nc \in ClassCounts, kw \in Kwargs :
          /\ built' = Append(built,
                 [call |-> [class |-> clazz, compound_coeff |-> cc,
                            num_classes |-> nc, kwargs |-> kw],
                  model |-> from_predefined(clazz, cc, nc, kw, default_blocks)])
          /\ default_blocks' = BlocksAfterInit(default_blocks)

InitPre == PPIdle /\ RHIdle /\ FWIdle /\ DetIdle /\ CbxIdle /\ PreInit /\ OthersIdle
NextPre ==
    \/ FromPredefined /\ UNCHANGED <<ppVars, rhVars, fwVars, detVars, cbxVars, othersVars>>
SpecPre == InitPre /\ [][NextPre]_vars

FpnFiltersTable == <<64, 86, 116, 157, 212>>

\* C14: from_predefined returns an instance of the class it was called on
\* with compound_coeff set to the argument, constructed with fpn_repeats =
\* 3 + compound_coeff, fpn_filters = int(64 * 1.35^compound_coeff),
\* head_repeats = 4 + compound_coeff // 3 and fpn_levels = [3, 5, 7, 8, 9],
\* except that every key of kwargs replaces the predefined value.
C14_PredefinedArgumentsAndOverrides ==
    \A k \in 1..Len(built) :
        LET call == built[k].call
            model == built[k].model
            predefined == [fpn_repeats |-> 3 + call.compound_coeff,
                           fpn_filters |-> FpnFiltersTable[call.compound_coeff + 1],
                           head_repeats |-> <<4 + call.compound_coeff \div 3>>,
                           fpn_levels |-> <<3, 5, 7, 8, 9>>]
        IN  /\ model.class = call.class
            /\ model.compound_coeff = call.compound_coeff
            /\ \A key \in DOMAIN call.kwargs : model.args[key] = call.kwargs[key]
            /\ \A key \in DOMAIN predefined \ DOMAIN call.kwargs :
                   model.args[key] = predefined[key]

C14_Witness ==
    \E k \in 1..Len(built) :
        /\ built[k].call.class = "Subclass"
        /\ built[k].call.compound_coeff = 2
        /\ built[k].call.kwargs # NoKwargs
        /\ built[k].model.args.fpn_repeats = 1
        /\ built[k].model.args.fpn_filters = 116

\* ======================================================================
\* TorchScriptCallback (lightning/callbacks.py)
\* ======================================================================

MaxTrainEnds == 2
Absent == "absent"
Ellipsis == "..."

\* a class's own __annotations__; LightningModule declares `_device: ...`
LightningModuleAnnotations == ("_device" :> Ellipsis)
DeviceOverridden == ("_device" :> "torch.device")
OtherAnnotations == ("hparams" :> "dict")

\* a module is an instance of a class, given by the own annotations of the
\* classes of its MRO that have any, and has an example_input_array or not
Mros ==
    [Plain |-> <<LightningModuleAnnotations>>,
     Overrides |-> <<DeviceOverridden, LightningModuleAnnotations>>,
     OtherOnly |-> <<OtherAnnotations, LightningModuleAnnotations>>,
     SubOfOverrides |-> <<OtherAnnotations, DeviceOverridden, LightningModuleAnnotations>>]
PlModule(class, example) ==
    [class |-> class, mro |-> Mros[class], example_input_array |-> example]
PlModules ==
    { PlModule("Plain", "inputA"), PlModule("Overrides", "inputA"),
      PlModule("Overrides", "inputB"), PlModule("Overrides", Absent),
      PlModule("Overrides", None), PlModule("OtherOnly", Absent),
      PlModule("SubOfOverrides", "inputA") }
Trainers ==
    { [default_root_dir |-> "root_dir", default_save_path |-> Absent],
      [default_root_dir |-> Absent, default_save_path |-> "save_path"],
      [default_root_dir |-> Absent, default_save_path |-> Absent] }
Paths == {None, "model.pth"}
SampleInputs == {None, "sample"}

\* pl_module.__annotations__: the attribute is found on the first class of
\* the MRO that has annotations of its own
AnnotationsOf(pl_module) == Head(pl_module.mro)

\* _get_default_save_path: the path and what it logs
get_default_save_path(trainer) ==
    IF trainer.default_root_dir # Absent
    THEN [value |-> trainer.default_root_dir, events |-> <<>>]
    ELSE IF trainer.default_save_path # Absent
    THEN [value |-> trainer.default_save_path, events |-> <<>>]
    ELSE [value |-> "cwd", events |-> <<[op |-> "warn"]>>]

\* line 68
SavePath_AlwaysDefault(path, trainer) == get_default_save_path(trainer)
SavePath(path, trainer) ==
    IF path # None THEN [value |-> path, events |-> <<>>]
    ELSE get_default_save_path(trainer)

\* _get_trace and _get_script: the ScriptModule they return
get_trace(sample_input, pl_module) ==
    [op |-> "trace", module |-> pl_module, input |-> sample_input]
get_script(pl_module) == [op |-> "script", module |-> pl_module]

\* on_train_end: the attribute sample_input afterwards, what was logged,
\* exported and saved, and how the call ended
on_train_end(path, trace, sample_input, trainer, pl_module) ==
    IF "_device" \notin DOMAIN AnnotationsOf(pl_module)
    THEN [sample_input |-> sample_input, events |-> <<>>,
          outcome |-> "KeyError", line |-> 62]
    ELSE IF AnnotationsOf(pl_module)["_device"] = Ellipsis
    THEN [sample_input |-> sample_input, events |-> <<>>,
          outcome |-> "RuntimeError", line |-> 63]
    ELSE
    LET save_path == SavePath(path, trainer)
    IN  IF trace /\ sample_input = None /\ pl_module.example_input_array = Absent
        THEN [sample_input |-> sample_input, events |-> save_path.events,
              outcome |-> "RuntimeError", line |-> 72]
        ELSE
        LET input == IF trace /\ sample_input = None
                     THEN pl_module.example_input_array ELSE sample_input
        IN  IF trace /\ input = None
            THEN [sample_input |-> input, events |-> save_path.events,
                  outcome |-> "AssertionError", line |-> 88]
            ELSE
            LET script == IF trace THEN get_trace(input, pl_module)
                          ELSE get_script(pl_module)
            IN  [sample_input |-> input,
                 events |-> save_path.events \o
                            <<script, [op |-> "save", script |-> script,
                                       path |-> save_path.value]>>,
                 outcome |-> "return", line |-> 85]

\* TorchScriptCallback(path, trace, sample_input)
TscInit ==
    /\ self_path \in Paths
    /\ self_trace \in BOOLEAN
    /\ self_sample_input \in SampleInputs
    /\ given = [path |-> self_path, trace |-> self_trace, sample_input |-> self_sample_input]
    /\ calls = <<>>

OnTrainEnd ==
    /\ Len(calls) < MaxTrainEnds
    /\ \E trainer \in Trainers, pl_module \in PlModules :
        LET done == on_train_end(self_path, self_trace, self_sample_input, trainer, pl_module)
        IN  /\ self_sample_input' = done.sample_input
            /\ calls' = Append(calls,
                   [trainer |-> trainer, pl_module |-> pl_module,
                    sample_input |-> self_sample_input,
                    events |-> done.events, outcome |-> done.outcome, line |-> done.line])
    /\ UNCHANGED <<self_path, self_trace, given>>

InitTsc == PPIdle /\ RHIdle /\ FWIdle /\ ModelsIdle /\ TscInit /\ GauIdle
NextTsc ==
    \/ OnTrainEnd /\ UNCHANGED <<ppVars, rhVars, fwVars, modelsVars, gauVars>>
SpecTsc == InitTsc /\ [][NextTsc]_vars

\* what a call exported and saved, in order
ExportsAndSaves(call) == SelectSeq(call.events, LAMBDA e : e.op # "warn")

\* C15: on_train_end exports with torch.jit.trace when trace is true and with
\* torch.jit.script otherwise; a call that returns has saved exactly one
\* ScriptModule, the one it exported just before, to the configured path, or
\* to the trainer's default save path when no path was configured.
C15_ExportThenOneSave ==
    \A k \in 1..Len(calls) :
        LET call == calls[k]
            done == ExportsAndSaves(call)
            default == IF call.trainer.default_root_dir # Absent
                       THEN call.trainer.default_root_dir
                       ELSE IF call.trainer.default_save_path # Absent
                       THEN call.trainer.default_save_path ELSE "cwd"
        IN  /\ \A n \in 1..Len(done) :
                   done[n].op \in {"trace", "script"} =>
                       done[n].op = IF given.trace THEN "trace" ELSE "script"
            /\ call.outcome = "return" =>
                   /\ Len(done) = 2
                   /\ done[1].op = IF given.trace THEN "trace" ELSE "script"
                   /\ done[1].module = call.pl_module
                   /\ done[2].op = "save"
                   /\ done[2].script = done[1]
                   /\ done[2].path = IF given.path # None THEN given.path ELSE default

C15_Witness ==
    /\ Len(calls) = 2
    /\ given.path = None
    /\ calls[1].outcome = "return" /\ calls[2].outcome = "return"
    /\ calls[1].trainer.default_root_dir = Absent
    /\ calls[1].trainer.default_save_path = "save_path"
    /\ calls[2].trainer.default_save_path = Absent
    /\ calls[2].trainer.default_root_dir = Absent

\* C16: when trace is true, sample_input is unset and the module has no
\* example_input_array, the call raises RuntimeError and has exported and
\* saved nothing.
C16_MissingExampleInputRaises ==
    \A k \in 1..Len(calls) :
        ( /\ given.trace
          /\ calls[k].sample_input = None
          /\ calls[k].pl_module.example_input_array = Absent ) =>
            /\ calls[k].outcome = "RuntimeError"
            /\ ExportsAndSaves(calls[k]) = <<>>

\* C17: when sample_input was not given and trace is true, every call traces
\* with the example_input_array of the module of that call, and no call
\* changes the callback's path, trace or sample_input.
C17_TracesWithModuleOfTheCall ==
    /\ <<self_path, self_trace, self_sample_input>>
          = <<given.path, given.trace, given.sample_input>>
    /\ \A k \in 1..Len(calls) :
          ( /\ given.trace
            /\ given.sample_input = None
            /\ calls[k].outcome = "return" ) =>
              ExportsAndSaves(calls[k])[1].input = calls[k].pl_module.example_input_array

\* the annotation of _device in effect for a module: that of the first class
\* of its MRO that annotates _device
RECURSIVE DeviceAnnotation(_)
DeviceAnnotation(mro) ==
    IF "_device" \in DOMAIN Head(mro) THEN Head(mro)["_device"]
    ELSE DeviceAnnotation(Tail(mro))

\* C18: a module whose _device annotation is still `...` makes the call raise
\* RuntimeError with nothing exported or saved, and a module whose _device
\* annotation was overridden passes the check; no module leaves the check
\* with another exception.
C18_DeviceCheckRaisesRuntimeError ==
    \A k \in 1..Len(calls) :
        /\ DeviceAnnotation(calls[k].pl_module.mro) = Ellipsis =>
              /\ calls[k].outcome = "RuntimeError"
              /\ ExportsAndSaves(calls[k]) = <<>>
        /\ DeviceAnnotation(calls[k].pl_module.mro) # Ellipsis =>
              calls[k].line \notin {62, 63}

\* ======================================================================
\* _AttentionUpsample (nn/modules/global_attention_upsample.py)
\*
\* A tensor is its shape <<N, C, spatial...>> and the list of the operations
\* that produced it from the argument.
\* ======================================================================

Dimensions == {1, 2, 3}
LowFilters == {1, 2}
HighFilters == {2, 3}
OutputFilters == {2, 3}
LowSizes == {2, 4}
HighSizes == {1, 2, 4}

Spatial(shape) == SubSeq(shape, 3, Len(shape))

Tensor(shape) == [shape |-> shape, ops |-> <<>>]

\* the layers of the block; a DynamicSamePad convolution of stride 1 keeps
\* the spatial size, a bare convolution loses kernel_size - 1
ConvNd(in_channels, out_channels, kernel_size, same_pad) ==
    [op |-> "Conv", in_channels |-> in_channels, out_channels |-> out_channels,
     kernel_size |-> kernel_size, same_pad |-> same_pad]
BatchNormNd(num_features) == [op |-> "BatchNorm", num_features |-> num_features]
AdaptiveAvgPoolNd(output_size) == [op |-> "AdaptiveAvgPool", output_size |-> output_size]
Identity == [op |-> "Identity"]
Activation == [op |-> "Activation"]

ApplyNd(layer, x) ==
    IF x.shape = Rejected THEN x
    ELSE IF layer.op = "Conv" THEN
        [shape |-> IF x.shape[2] # layer.in_channels THEN Rejected
                   ELSE <<x.shape[1], layer.out_channels>> \o
                        [k \in 1..Len(x.shape) - 2 |->
                            IF layer.same_pad THEN x.shape[k + 2]
                            ELSE x.shape[k + 2] - layer.kernel_size + 1],
         ops |-> Append(x.ops, "conv")]
    ELSE IF layer.op = "BatchNorm" THEN
        [shape |-> IF x.shape[2] # layer.num_features THEN Rejected ELSE x.shape,
         ops |-> Append(x.ops, "batchnorm")]
    ELSE IF layer.op = "AdaptiveAvgPool" THEN
        [shape |-> <<x.shape[1], x.shape[2]>> \o
                   [k \in 1..Len(x.shape) - 2 |-> layer.output_size],
         ops |-> Append(x.ops, "pool")]
    ELSE x

RECURSIVE SequentialNd(_, _)
SequentialNd(layers, x) ==
    IF layers = <<>> THEN x ELSE SequentialNd(Tail(layers), ApplyNd(Head(layers), x))

\* F.interpolate(x, size)
Interpolate(x, size) ==
    IF x.shape = Rejected THEN x
    ELSE [shape |-> IF Len(size) # Len(x.shape) - 2 THEN Rejected
                    ELSE <<x.shape[1], x.shape[2]>> \o size,
          ops |-> Append(x.ops, "interpolate")]

\* the shape of an elementwise a + b or a * b
Broadcast(a, b) ==
    IF a = Rejected \/ b = Rejected \/ Len(a) # Len(b) THEN Rejected
    ELSE IF \E k \in 1..Len(a) : a[k] # b[k] /\ a[k] # 1 /\ b[k] # 1 THEN Rejected
    ELSE [k \in 1..Len(a) |-> Max(a[k], b[k])]

\* _AttentionUpsample.__init__
AttentionUpsample(dims, low_filters, high_filters, output_filters, kernel_size, pool) ==
    [dims |-> dims, low_filters |-> low_filters, high_filters |-> high_filters,
     output_filters |-> output_filters, pool |-> pool,
     low_level_path |-> << ConvNd(low_filters, output_filters, kernel_size, TRUE),
                           BatchNormNd(output_filters), Activation >>,
     high_level_path |-> << IF pool THEN AdaptiveAvgPoolNd(1) ELSE Identity,
                            ConvNd(high_filters, output_filters, 1, FALSE), Activation >>,
     high_level_conv |-> IF high_filters # output_filters
                         THEN ConvNd(high_filters, output_filters, 1, FALSE)
                         ELSE Identity]

\* line 98
WeightsUpsampled_WhenPooled(pool) == pool
WeightsUpsampled(pool) == ~pool

GauInit ==
    /\ gau \in {AttentionUpsample(d, cl, ch, co, 3, p) :
                  d \in Dimensions, cl \in LowFilters, ch \in HighFilters,
                  co \in OutputFilters, p \in BOOLEAN}
    /\ \E n \in 1..BatchSize :
       \E low \in [1..gau.dims -> LowSizes], high \in [1..gau.dims -> HighSizes] :
          gau_in = [low_level |-> Tensor(<<n, gau.low_filters>> \o low),
                    high_level |-> Tensor(<<n, gau.high_filters>> \o high)]
    /\ gau_pc = "low_level_path"
    /\ gau_low = gau_in.low_level
    /\ gau_high = gau_in.high_level
    /\ gau_weights = Unbound
    /\ gau_result = [kind |-> "none"]

\* low_level = self.low_level_path(low_level)
GauLowPath ==
    /\ gau_pc = "low_level_path"
    /\ gau_low' = SequentialNd(gau.low_level_path, gau_low)
    /\ gau_pc' = "high_level_path"
    /\ UNCHANGED <<gau, gau_in, gau_weights, gau_high, gau_result>>

\* weights = self.high_level_path(high_level)
GauWeights ==
    /\ gau_pc = "high_level_path"
    /\ gau_weights' = SequentialNd(gau.high_level_path, gau_high)
    /\ gau_pc' = "high_level_conv"
    /\ UNCHANGED <<gau, gau_in, gau_low, gau_high, gau_result>>

\* high_level = self.high_level_conv(high_level)
GauHighConv ==
    /\ gau_pc = "high_level_conv"
    /\ gau_high' = ApplyNd(gau.high_level_conv, gau_high)
    /\ gau_pc' = "upsample"
    /\ UNCHANGED <<gau, gau_in, gau_low, gau_weights, gau_result>>

\* lines 93-101
GauUpsample ==
    /\ gau_pc = "upsample"
    /\ IF Spatial(gau_high.shape) # Spatial(gau_low.shape)
       THEN /\ gau_high' = Interpolate(gau_high, Spatial(gau_low.shape))
            /\ gau_weights' = IF WeightsUpsampled(gau.pool)
                              THEN Interpolate(gau_weights, Spatial(gau_low.shape))
                              ELSE gau_weights
       ELSE UNCHANGED <<gau_high, gau_weights>>
    /\ gau_pc' = "return"
    /\ UNCHANGED <<gau, gau_in, gau_low, gau_result>>

\* return high_level + low_level * weights
GauReturn ==
    /\ gau_pc = "return"
    /\ LET shape == Broadcast(gau_high.shape, Broadcast(gau_low.shape, gau_weights.shape))
       IN  gau_result' = IF shape = Rejected
                         THEN [kind |-> "raise", error |-> "RuntimeError"]
                         ELSE [kind |-> "return", shape |-> shape]
    /\ gau_pc' = "done"
    /\ UNCHANGED <<gau, gau_in, gau_low, gau_weights, gau_high>>

InitGau == PPIdle /\ RHIdle /\ FWIdle /\ ModelsIdle /\ TscIdle /\ GauInit
NextGau ==
    \/ GauLowPath /\ UNCHANGED <<ppVars, rhVars, fwVars, modelsVars, tscVars>>
    \/ GauWeights /\ UNCHANGED <<ppVars, rhVars, fwVars, modelsVars, tscVars>>
    \/ GauHighConv /\ UNCHANGED <<ppVars, rhVars, fwVars, modelsVars, tscVars>>
    \/ GauUpsample /\ UNCHANGED <<ppVars, rhVars, fwVars, modelsVars, tscVars>>
    \/ GauReturn /\ UNCHANGED <<ppVars, rhVars, fwVars, modelsVars, tscVars>>
SpecGau == InitGau /\ [][NextGau]_vars

Applied(x, op) == \E k \in 1..Len(x.ops) : x.ops[k] = op

\* C19: forward returns a tensor of shape (N, output_filters, spatial size of
\* low_level) whatever pool is and whether or not the channel counts and the
\* spatial sizes of the two inputs agree; high_level goes through a pointwise
\* convolution exactly when C_h differs from C_o and is upsampled exactly
\* when its spatial size differs from low_level's.
C19_OutputHasLowLevelShape ==
    gau_pc = "done" =>
        /\ gau_result.kind = "return"
        /\ gau_result.shape = <<gau_in.low_level.shape[1], gau.output_filters>>
                                \o Spatial(gau_in.low_level.shape)
        /\ Applied(gau_high, "conv") <=> gau.high_filters # gau.output_filters
        /\ Applied(gau_high, "interpolate") <=>
               Spatial(gau_in.high_level.shape) # Spatial(gau_in.low_level.shape)

C19_Witness ==
    /\ gau_pc = "done"
    /\ gau.dims = 3
    /\ ~gau.pool
    /\ gau.high_filters = 3 /\ gau.output_filters = 2
    /\ Spatial(gau_in.high_level.shape) = <<2, 1, 4>>
    /\ gau_result.shape = <<2, 2, 4, 2, 4>>

=============================================================================
